---- MODULE Spec2Model ----
(***************************************************************************)
(* A model of the roguelike's dungeon generator (src/src/map.rs), its     *)
(* start-up (src/src/main.rs) and the per-tick player movement            *)
(* (src/hellorust/src/main.rs).                                           *)
(***************************************************************************)
EXTENDS Integers, Sequences, FiniteSets, TLC

VARIABLES
    map,        \* Vec<TileType> of length MAP_LEN, held as the set of the
                \* indices whose tile is Floor (every other index is Wall)
    rooms,      \* Vec<Rect>, in acceptance order
    attempts,   \* the generator's loop counter _i
    pc,         \* "gen" | "play" | "panic"
    positions,  \* storage of Position: entity -> [x, y]
    players,    \* entities holding Player
    leftmovers, \* entities holding LeftMover
    key,        \* ctx.key of the last tick
    old         \* the Position storage before the last tick

vars == <<map, rooms, attempts, pc, positions, players, leftmovers, key, old>>

\* ------------------------------------------------------------ constants
MAP_WIDTH == 80
MAP_HEIGHT == 50
MAP_LEN == MAP_WIDTH * MAP_HEIGHT
MAX_ROOMS == 30
MIN_SIZE == 6
MAX_SIZE == 10

\* ------------------------------------------------------------ bounds
\* Loop iterations of the generator that are explored.
MaxAttempts == 3
\* usize is modelled UsizeBits wide.
UsizeBits == 23

\* Sampled results of rng.range(MIN_SIZE, MAX_SIZE).
SizeSamples == {6, 9}
\* Sampled results of rng.roll_dice(1, n) for the room's x and y.
XRollSamples == {43, 46}
YRollSamples == {27, 36, 43}

UsizeModulus == 2 ^ UsizeBits

Min(a, b) == IF a < b THEN a ELSE b
Max(a, b) == IF a > b THEN a ELSE b

\* ------------------------------------------------------------ xy_idx
\* `v as usize` of an i32.
AsUsize(v) == IF v < 0 THEN UsizeModulus + v ELSE v

\* The exact value of (y as usize * 80) + x as usize, before any wrap.
xy_idx_wide(x, y) == AsUsize(y) * MAP_WIDTH + AsUsize(x)

\* Whether the multiplication or the addition overflows usize.
xy_idx_overflows(x, y) == xy_idx_wide(x, y) >= UsizeModulus

\* The index a build without overflow checks computes.
xy_idx(x, y) == xy_idx_wide(x, y) % UsizeModulus

\* ------------------------------------------------------------ Rect
RectNew(x, y, w, h) == [x1 |-> x, y1 |-> y, x2 |-> x + w, y2 |-> y + h]

Intersect(a, b) ==
    a.x1 <= b.x2 /\ a.x2 >= b.x1 /\ a.y1 <= b.y2 /\ a.y2 >= b.y1

Center(r) == [x |-> (r.x1 + r.x2) \div 2, y |-> (r.y1 + r.y2) \div 2]

\* ------------------------------------------------------------ carving
\* The indices apply_room_to_map writes, unchecked.
RoomIndices(room) ==
    { xy_idx(x, y) : x \in (room.x1 + 1)..room.x2, y \in (room.y1 + 1)..room.y2 }

\* map[idx], for idx < map.len().
Tile(m, idx) == IF idx \in m THEN "Floor" ELSE "Wall"

\* map[idx] = TileType::Floor for every idx of cells.
SetFloor(m, cells) == m \cup cells

\* The room carved with the arguments of xy_idx exchanged.
apply_room_to_map_transposed(room, m) ==
    SetFloor(m, { xy_idx(y, x) : x \in (room.x1 + 1)..room.x2,
                                  y \in (room.y1 + 1)..room.y2 })

apply_room_to_map(room, m) == SetFloor(m, RoomIndices(room))

\* The indices a tunnel computes, and those that pass its bounds check.
HTunnelIndices(x1, x2, y) == { xy_idx(x, y) : x \in Min(x1, x2)..Max(x1, x2) }
VTunnelIndices(y1, y2, x) == { xy_idx(x, y) : y \in Min(y1, y2)..Max(y1, y2) }

TunnelChecked(cells) == { idx \in cells : idx > 0 /\ idx < MAP_LEN }

apply_horizontal_tunnel(m, x1, x2, y) ==
    SetFloor(m, TunnelChecked(HTunnelIndices(x1, x2, y)))

apply_vertical_tunnel(m, y1, y2, x) ==
    SetFloor(m, TunnelChecked(VTunnelIndices(y1, y2, x)))

\* The two tunnel calls of one branch.
ConnectRooms(m, prev, new, coin) ==
    IF coin = 1
    THEN apply_horizontal_tunnel(
             apply_horizontal_tunnel(m, prev.x, new.x, prev.y),
             prev.y, prev.y, new.x)
    ELSE apply_vertical_tunnel(
             apply_vertical_tunnel(m, prev.y, new.y, prev.x),
             prev.x, prev.x, new.y)

\* `ok` as decided by the last room of the list alone.
RoomOkLastOnly(new_room, rs) ==
    rs = <<>> \/ ~Intersect(new_room, rs[Len(rs)])

\* `ok` after the loop over rooms.iter().
RoomOk(new_room, rs) ==
    \A k \in 1..Len(rs) : ~Intersect(new_room, rs[k])

\* ------------------------------------------------------------ generator
InitGen ==
    /\ map = {}
    /\ rooms = <<>>
    /\ attempts = 0
    /\ pc = "gen"
    /\ positions = <<>>
    /\ players = {}
    /\ leftmovers = {}
    /\ key = "None"
    /\ old = <<>>

\* One iteration of `for _i in 0..MAX_ROOMS`.
Attempt ==
    /\ pc = "gen"
    /\ attempts < MAX_ROOMS
    /\ attempts < MaxAttempts
    /\ \E w \in SizeSamples, h \in SizeSamples,
          xr \in XRollSamples, yr \in YRollSamples, coin \in {0, 1} :
        /\ w >= MIN_SIZE /\ w < MAX_SIZE
        /\ h >= MIN_SIZE /\ h < MAX_SIZE
        /\ xr >= 1 /\ xr <= MAP_WIDTH - w - 1
        /\ yr >= 1 /\ yr <= MAP_HEIGHT - h - 1
        /\ LET new_room == RectNew(xr - 1, yr - 1, w, h)
           IN  IF ~RoomOk(new_room, rooms)
               THEN UNCHANGED <<map, rooms, pc>>
               ELSE IF ~(RoomIndices(new_room) \subseteq 0..(MAP_LEN - 1))
               THEN pc' = "panic" /\ UNCHANGED <<map, rooms>>
               ELSE /\ map' = IF rooms # <<>>
                              THEN ConnectRooms(apply_room_to_map(new_room, map),
                                                Center(rooms[Len(rooms)]),
                                                Center(new_room), coin)
                              ELSE apply_room_to_map(new_room, map)
                    /\ rooms' = Append(rooms, new_room)
                    /\ pc' = pc
    /\ attempts' = attempts + 1
    /\ UNCHANGED <<positions, players, leftmovers, key, old>>

\* main, with the player created at the first room's corner (x1, y1).
SetupAtCorner ==
    /\ pc = "gen"
    /\ attempts = (IF MAX_ROOMS < MaxAttempts THEN MAX_ROOMS ELSE MaxAttempts)
    /\ rooms # <<>>
    /\ positions' = <<[x |-> rooms[1].x1, y |-> rooms[1].y1]>>
    /\ players' = {1}
    /\ old' = positions'
    /\ pc' = "play"
    /\ UNCHANGED <<map, rooms, attempts, leftmovers, key>>

\* main: the generator has returned; the player is created at rooms[0].center().
Setup ==
    /\ pc = "gen"
    /\ attempts = Min(MAX_ROOMS, MaxAttempts)
    /\ IF rooms = <<>>
       THEN pc' = "panic" /\ UNCHANGED <<positions, players, old>>
       ELSE /\ positions' = <<Center(rooms[1])>>
            /\ players' = {1}
            /\ old' = <<Center(rooms[1])>>
            /\ pc' = "play"
    /\ UNCHANGED <<map, rooms, attempts, leftmovers, key>>

\* ------------------------------------------------------------ tick
Keys == {"None", "Left", "Right", "Up", "Down", "Other"}

InGrid(x, y) == x >= 0 /\ x < MAP_WIDTH /\ y >= 0 /\ y < MAP_HEIGHT

\* try_move_player for one entity with the tile test inverted.
MoveOutcomesInverted(m, pos, dx, dy) ==
    LET nx == pos.x + dx
        ny == pos.y + dy
        idx == xy_idx(nx, ny)
    IN  IF xy_idx_overflows(nx, ny) \/ idx >= MAP_LEN
        THEN {[panic |-> TRUE, pos |-> pos]}
        ELSE IF Tile(m, idx) = "Wall"
        THEN {[panic |-> FALSE,
               pos |-> [x |-> Min(79, Max(0, nx)), y |-> Min(49, Max(0, ny))]]}
        ELSE {[panic |-> FALSE, pos |-> pos]}

\* The outcomes of try_move_player for one entity: [panic, pos].
\* An overflowing index panics in a build with overflow checks and wraps
\* in one without.
MoveOutcomes(m, pos, dx, dy) ==
    LET nx == pos.x + dx
        ny == pos.y + dy
        idx == xy_idx(nx, ny)
        indexed ==
            IF idx >= MAP_LEN
            THEN [panic |-> TRUE, pos |-> pos]
            ELSE IF Tile(m, idx) # "Wall"
            THEN [panic |-> FALSE,
                  pos |-> [x |-> Min(79, Max(0, nx)), y |-> Min(49, Max(0, ny))]]
            ELSE [panic |-> FALSE, pos |-> pos]
    IN  IF xy_idx_overflows(nx, ny)
        THEN {[panic |-> TRUE, pos |-> pos], indexed}
        ELSE {indexed}

\* try_move_player: the join over (players, positions), in entity order.
\* The set of outcomes [panic, positions]; a panic ends the loop.
RECURSIVE MoveJoin(_, _, _, _, _)
MoveJoin(es, dx, dy, m, ps) ==
    IF es = {}
    THEN {[panic |-> FALSE, positions |-> ps]}
    ELSE LET e == CHOOSE a \in es : \A b \in es : a <= b
         IN  UNION { IF o.panic
                     THEN {[panic |-> TRUE, positions |-> ps]}
                     ELSE MoveJoin(es \ {e}, dx, dy, m, [ps EXCEPT ![e] = o.pos])
                     : o \in MoveOutcomes(m, ps[e], dx, dy) }

try_move_player(dx, dy, m, ps, pl) ==
    MoveJoin(pl \cap DOMAIN ps, dx, dy, m, ps)

\* player_input with every other key moving the player to the right.
player_input_other_moves(k, m, ps, pl) ==
    CASE k = "Left"  -> try_move_player(-1, 0, m, ps, pl)
      [] k = "Right" -> try_move_player(1, 0, m, ps, pl)
      [] k = "Up"    -> try_move_player(0, -1, m, ps, pl)
      [] k = "Down"  -> try_move_player(0, 1, m, ps, pl)
      [] k = "None"  -> {[panic |-> FALSE, positions |-> ps]}
      [] OTHER       -> try_move_player(1, 0, m, ps, pl)

\* player_input: match ctx.key.
player_input(k, m, ps, pl) ==
    CASE k = "Left"  -> try_move_player(-1, 0, m, ps, pl)
      [] k = "Right" -> try_move_player(1, 0, m, ps, pl)
      [] k = "Up"    -> try_move_player(0, -1, m, ps, pl)
      [] k = "Down"  -> try_move_player(0, 1, m, ps, pl)
      [] OTHER       -> {[panic |-> FALSE, positions |-> ps]}

\* LeftWalker::run: the join over (LeftMover, Position).
LeftWalker_run(ps, lm) ==
    [e \in DOMAIN ps |->
        IF e \in lm
        THEN [x |-> IF ps[e].x - 1 < 0 THEN 79 ELSE ps[e].x - 1, y |-> ps[e].y]
        ELSE ps[e]]

\* State::run_systems: ecs.maintain() only; no system is dispatched and
\* nothing is queued.
run_systems(ps, lm) == ps

\* State::tick with ctx.key = k; drawing reads the state and changes nothing.
tick(k) ==
    /\ pc = "play"
    /\ \E r \in player_input(k, map, positions, players) :
        /\ positions' = IF r.panic THEN r.positions
                        ELSE run_systems(r.positions, leftmovers)
        /\ pc' = IF r.panic THEN "panic" ELSE "play"
    /\ key' = k
    /\ old' = positions
    /\ UNCHANGED <<map, rooms, attempts, players, leftmovers>>

Tick == \E k \in Keys : tick(k)

Next == Attempt \/ Setup \/ Tick

Spec == InitGen /\ [][Next]_vars

\* ------------------------------------------------------------ new_map
BorderIndices ==
    { xy_idx(x, y) : x \in 0..79, y \in {0, 49} } \cup
    { xy_idx(x, y) : x \in {0, 79}, y \in 0..49 }

\* new_map, with picks the set of the (x, y) its 400 rounds roll.
new_map(picks) ==
    LET splat == { idx \in { xy_idx(p.x, p.y) : p \in picks } : idx # xy_idx(40, 25) }
    IN  (0..(MAP_LEN - 1)) \ (BorderIndices \cup splat)

\* ------------------------------------------------------------ a world for tick
\* Rolls that wall in the five cells around (5, 5), and (0, 1) on the border.
RingPicks ==
    { p \in [x : 3..7, y : 3..7] :
        (IF p.x > 5 THEN p.x - 5 ELSE 5 - p.x) + (IF p.y > 5 THEN p.y - 5 ELSE 5 - p.y) = 2 }
    \cup {[x |-> 1, y |-> 1]}

PickSamples == { RingPicks \cup extra : extra \in SUBSET {[x |-> 6, y |-> 5], [x |-> 5, y |-> 6]} }

PlayerStarts == {[x |-> 5, y |-> 5], [x |-> 0, y |-> 0], [x |-> 0, y |-> 1], [x |-> 79, y |-> 49]}

LeftMoverStarts == {[x |-> 0, y |-> 20], [x |-> 10, y |-> 20]}

\* A world as a test of tick builds it: the map of new_map, entity 1 with
\* Position and Player, entity 2 with Position and LeftMover.
InitWorld ==
    /\ \E picks \in PickSamples : map = new_map(picks)
    /\ rooms = <<>>
    /\ attempts = 0
    /\ pc = "play"
    /\ \E p \in PlayerStarts, l \in LeftMoverStarts : positions = <<p, l>>
    /\ players = {1}
    /\ leftmovers = {2}
    /\ key = "None"
    /\ old = positions

SpecWorld == InitWorld /\ [][Tick]_vars

\* ------------------------------------------------------------ hellorust main
\* Rolls that wall in the five cells around (40, 25); (40, 25) itself may
\* be rolled.
StartPickSamples ==
    { { p \in [x : 38..42, y : 23..27] :
          (IF p.x > 40 THEN p.x - 40 ELSE 40 - p.x)
            + (IF p.y > 25 THEN p.y - 25 ELSE 25 - p.y) = 2 } \cup extra :
      extra \in SUBSET {[x |-> 40, y |-> 25], [x |-> 41, y |-> 25]} }

\* main of hellorust: new_map's grid and the player at (40, 25).
InitHello ==
    /\ \E picks \in StartPickSamples : map = new_map(picks)
    /\ rooms = <<>>
    /\ attempts = 0
    /\ pc = "play"
    /\ positions = <<[x |-> 40, y |-> 25]>>
    /\ players = {1}
    /\ leftmovers = {}
    /\ key = "None"
    /\ old = positions

\* Either program: the room generator's, or hellorust's.
SpecPrograms == (InitGen \/ InitHello) /\ [][Next]_vars

\* ------------------------------------------------------------ properties
Dirs == {"Left", "Right", "Up", "Down"}

DeltaX(k) == CASE k = "Left" -> -1 [] k = "Right" -> 1 [] OTHER -> 0
DeltaY(k) == CASE k = "Up" -> -1 [] k = "Down" -> 1 [] OTHER -> 0

Abs(v) == IF v < 0 THEN -v ELSE v

\* The cells 4-adjacent to index i.
Neighbours(i) ==
    LET x == i % MAP_WIDTH
        y == i \div MAP_WIDTH
    IN  { xy_idx(n.x, n.y) :
            n \in { c \in {[x |-> x - 1, y |-> y], [x |-> x + 1, y |-> y],
                           [x |-> x, y |-> y - 1], [x |-> x, y |-> y + 1]} :
                    InGrid(c.x, c.y) } }

\* The Floor cells reachable from the cells of frontier through Floor cells.
RECURSIVE Flood(_, _, _)
Flood(m, frontier, seen) ==
    IF frontier = {}
    THEN seen
    ELSE LET nxt == ((UNION { Neighbours(i) : i \in frontier }) \cap m) \ seen
         IN  Flood(m, nxt, seen \cup nxt)

Reachable(m, from) == Flood(m, {from} \cap m, {from} \cap m)

CenterIdx(r) == xy_idx(Center(r).x, Center(r).y)

\* An L of Floor cells from a to b, turning at (b.x, a.y) or at (a.x, b.y).
LPath(m, a, b) ==
    \/ /\ \A x \in Min(a.x, b.x)..Max(a.x, b.x) : Tile(m, xy_idx(x, a.y)) = "Floor"
       /\ \A y \in Min(a.y, b.y)..Max(a.y, b.y) : Tile(m, xy_idx(b.x, y)) = "Floor"
    \/ /\ \A y \in Min(a.y, b.y)..Max(a.y, b.y) : Tile(m, xy_idx(a.x, y)) = "Floor"
       /\ \A x \in Min(a.x, b.x)..Max(a.x, b.x) : Tile(m, xy_idx(x, b.y)) = "Floor"

\* C1: no two distinct rooms of the generator's room list intersect
\* (boundary-inclusive overlap on both axes), whatever the draws.
C1_NoRoomsIntersect ==
    \A i, j \in 1..Len(rooms) : i # j => ~Intersect(rooms[i], rooms[j])

\* Two rooms were accepted and a third candidate was rejected.
C1_Witness == Len(rooms) = 2 /\ attempts = 3

\* C2: every cell of the four border rows and columns is Wall in the
\* generator's grid; no room and no corridor call sets one to Floor.
C2_BorderIsWall == \A idx \in BorderIndices : Tile(map, idx) = "Wall"

\* C3: every accepted room but the first is joined to the room accepted
\* before it by an L-shaped path of Floor cells between the two centers, so
\* that every room center is reachable from the first room's center.
C3_CentersJoined ==
    /\ \A k \in 2..Len(rooms) : LPath(map, Center(rooms[k - 1]), Center(rooms[k]))
    /\ \A k \in 2..Len(rooms) :
         CenterIdx(rooms[k]) \in Reachable(map, CenterIdx(rooms[1]))

\* C4: a unit move of the player whose destination lies inside the grid
\* leaves the position unchanged when the destination tile is Wall and
\* makes it exactly the destination when the tile is Floor.
C4_MoveDecidedByTile ==
    \A e \in players :
        LET nx == old[e].x + DeltaX(key)
            ny == old[e].y + DeltaY(key)
        IN  (key \in Dirs /\ InGrid(nx, ny)) =>
                /\ pc = "play"
                /\ IF Tile(map, xy_idx(nx, ny)) = "Wall"
                   THEN positions[e] = old[e]
                   ELSE positions[e] = [x |-> nx, y |-> ny]

\* The player at (5,5) pressed Right against a Wall at (6,5) and stayed.
C4_Witness ==
    /\ key = "Right"
    /\ old[1] = [x |-> 5, y |-> 5]
    /\ Tile(map, xy_idx(6, 5)) = "Wall"
    /\ positions[1] = [x |-> 5, y |-> 5]

\* C5: with the player at (0,0) a Left or an Up key event completes
\* normally and leaves the position at (0,0); no player coordinate is ever
\* negative.
C5_ClampAtOrigin ==
    \A e \in players :
        /\ positions[e].x >= 0 /\ positions[e].y >= 0
        /\ (key \in {"Left", "Up"} /\ old[e] = [x |-> 0, y |-> 0]) =>
               pc = "play" /\ positions[e] = [x |-> 0, y |-> 0]

\* C6: every tick moves every entity holding LeftMover and Position one cell
\* to the left, wrapping from 0 to 79: the tick runs the LeftWalker system.
C6_LeftWalkerEveryTick ==
    [][(pc = "play" /\ pc' = "play") =>
        \A e \in leftmovers \cap DOMAIN positions :
            positions'[e] = LeftWalker_run(positions, leftmovers)[e]]_vars

\* C7: OutOfBounds never occurs: every index the generator's carving and
\* try_move_player use on the tile array lies in [0, 4000).
C7_NoOutOfBounds ==
    /\ pc # "panic"
    /\ \A e \in players :
        key \in Dirs =>
            ~xy_idx_overflows(old[e].x + DeltaX(key), old[e].y + DeltaY(key))
            /\ xy_idx(old[e].x + DeltaX(key), old[e].y + DeltaY(key)) < MAP_LEN

\* C8: a tick moves the player by at most one cell along one axis, not at
\* all when the key is absent or not a direction, and never changes the grid.
C8_OneStepPerTick ==
    [][pc = "play" =>
        /\ map' = map
        /\ \A e \in DOMAIN positions :
            /\ Abs(positions'[e].x - positions[e].x)
                 + Abs(positions'[e].y - positions[e].y) <= 1
            /\ key' \notin Dirs => positions'[e] = positions[e]]_vars

\* A tick with a key that is no direction has run.
C8_Witness == pc = "play" /\ key = "Other" /\ positions = old

\* C9: the generator returns between 1 and 30 rooms, the first attempt
\* being accepted, so main's rooms[0] exists; its center is a Floor cell
\* strictly inside the border.
C9_StartCellIsFloor ==
    /\ Len(rooms) <= MAX_ROOMS
    /\ attempts >= 1 =>
        /\ Len(rooms) >= 1
        /\ Tile(map, CenterIdx(rooms[1])) = "Floor"
        /\ Center(rooms[1]).x > 0 /\ Center(rooms[1]).x < MAP_WIDTH - 1
        /\ Center(rooms[1]).y > 0 /\ Center(rooms[1]).y < MAP_HEIGHT - 1
    /\ pc # "gen" => positions # <<>>

\* main has placed the player at the first room's center.
C9_Witness ==
    pc = "play" /\ key = "None" /\ Len(rooms) = 3 /\ positions[1] = Center(rooms[1])

\* C10: the player is always inside the grid and on a Floor tile, and a
\* move ends on the cell whose tile was tested.
C10_PlayerOnFloor ==
    \A e \in players :
        /\ InGrid(positions[e].x, positions[e].y)
        /\ Tile(map, xy_idx(positions[e].x, positions[e].y)) = "Floor"
        /\ positions[e] # old[e] =>
             positions[e] = [x |-> old[e].x + DeltaX(key), y |-> old[e].y + DeltaY(key)]

\* The player has walked onto a cell of the bottom row.
C10_Witness == \E e \in players : positions[e].y = MAP_HEIGHT - 1

====
